---- MODULE Spec2Model ----
(***************************************************************************)
(* A model of the TDC tools: the block decoder of tdc_compression.py, the  *)
(* container writer of pack.py and the front-ends unpack.py and process.py,*)
(* and the payload parser of tdc_data.py.                                  *)
(* Bytes are integers 0..255, byte strings are sequences of bytes.         *)
(***************************************************************************)
EXTENDS Integers, Sequences, FiniteSets, TLC

VARIABLES
    dec,          \* decompress(): CompressedStream, DecompressedStream and locals
    lb,           \* a lone DecompressedStream and one lookback_n_take_m_bytes call
    rt,           \* compress() followed by decompress() on one raw input
    pk,           \* pack.py: metadata, input directory, output file, loop state
    un,           \* unpack.py: input file, parsed container, output directory
    pr,           \* process.py: input file, parsed container, output file, totals
    pa            \* tdc_data.parse(): the Data cursors, the records and the locals

vars == <<dec, lb, rt, pk, un, pr, pa>>

-----------------------------------------------------------------------------
(* Bounds of the model *)

MaxLen == 5          \* longest compressed input given to decompress
MaxBuf == 4          \* longest output buffer given to lookback_n_take_m_bytes
MaxCount == 9        \* largest count given to lookback_n_take_m_bytes
MaxRaw == 66         \* longest raw input given to compress
MaxThings == 2       \* most (lower, upper) entries in a header
MaxPad == 3          \* most padding bytes between the header and data_offset
MaxBlocks == 2       \* most block_N.bin files in the input directory of pack
MaxRecords == 2      \* most records in a container given to unpack and process
MaxChunks == 2       \* most chunks in a payload given to parse
MaxCut == 1          \* most bytes missing at the end of a payload

-----------------------------------------------------------------------------
(* Generic helpers *)

None == -1

RECURSIVE SeqsUpTo(_, _)
SeqsUpTo(S, n) ==
    IF n = 0 THEN {<<>>}
    ELSE LET shorter == SeqsUpTo(S, n - 1)
         IN  shorter \cup {Append(s, b) : s \in {t \in shorter : Len(t) = n - 1}, b \in S}

Take(s, n) == SubSeq(s, 1, IF n < Len(s) THEN n ELSE Len(s))
Drop(s, n) == SubSeq(s, n + 1, Len(s))

\* bytes * n
Repeat(s, n) == [i \in 1..(n * Len(s)) |-> s[((i - 1) % Len(s)) + 1]]

\* math.ceil(a / b) for a >= 0, b > 0
ceil_div(a, b) == (a + b - 1) \div b

-----------------------------------------------------------------------------
(* CompressedStream *)

get_remaining(s) == Len(s.data) - s.index

\* take_one: the value and the stream after the read, or an underflow
take_one_ok(s) == get_remaining(s) >= 1
take_one_value(s) == s.data[s.index + 1]
inc_index(s, count) == [s EXCEPT !.index = s.index + count]

take_two_be_ok(s) == get_remaining(s) >= 2
take_two_be_value(s) ==
    LET hi == take_one_value(s)
        lo == take_one_value(inc_index(s, 1))
    IN  hi * 256 + lo

take_n_bytes_ok(s, count) == get_remaining(s) >= count
take_n_bytes_value(s, count) == SubSeq(s.data, s.index + 1, s.index + count)

-----------------------------------------------------------------------------
(* DecompressedStream *)

\* mutant: the bound test is strict
lookback_ok_Strict(out, lookback) == lookback < Len(out)

lookback_ok(out, lookback) == lookback <= Len(out)

\* The bytes lookback_n_take_m_bytes appends: the last `lookback` bytes,
\* repeated 1 + ceil((count - lookback) / lookback) times when too short,
\* cut to `count`.
\* mutant: the repeat count is rounded down
lookback_repeats_Floor(lookback, count) ==
    IF lookback < count THEN (count - lookback) \div lookback ELSE 0

lookback_repeats(lookback, count) ==
    IF lookback < count THEN ceil_div(count - lookback, lookback) ELSE 0

lookback_data(out, lookback, count) ==
    LET last == SubSeq(out, Len(out) - lookback + 1, Len(out))
        rep  == IF lookback < count
                THEN Repeat(last, 1 + lookback_repeats(lookback, count))
                ELSE last
    IN  Take(rep, count)

-----------------------------------------------------------------------------
(* extract_bits *)

extract_bits_ok(value) == value \div 256 = 0
high_three_bits(value) == value \div 32
low_five_bits(value) == value % 32

-----------------------------------------------------------------------------
(* decompress: one record holds both streams and the locals of the loop.   *)
(* pc is the position in the function: "loop" the while test, "literal",   *)
(* "ext" and "chain" the copy length extension, "offset", "offext",        *)
(* "copy", "except" the handler, "returned" and "raised" the two ends.     *)

NewDec(compressed_bytes) ==
    [data |-> compressed_bytes, index |-> 0, out |-> <<>>,
     header_type |-> None, control_byte |-> None,
     copy_length |-> 0, low5 |-> 0, lookback_offset |-> 0,
     pc |-> "loop", exc |-> "none", dumps |-> 0, errpos |-> None]

Raise(s, kind) == [s EXCEPT !.pc = "except", !.exc = kind]

Underflow(s) == Raise(s, "DecompressionError")

\* mutant: one more header type let through
SupportedHeaders_Wide == {0, 1, 2}

SupportedHeaders == {0, 1}

\* while compressed.get_remaining() > 0 is false: return bytes(decompressed)
StepLoopExit(s) == [s EXCEPT !.pc = "returned"]

\* mutant: the header byte is split like any other control byte
StepControl_HeaderBackref(s) ==
    LET value == take_one_value(s)
        s1    == [inc_index(s, 1) EXCEPT !.control_byte = value]
        high  == high_three_bits(value)
        low   == low_five_bits(value)
        type  == IF s.header_type = None THEN high ELSE s.header_type
    IN  IF ~extract_bits_ok(value) THEN Raise(s1, "AssertionError")
        ELSE IF type \notin SupportedHeaders
        THEN Raise([s1 EXCEPT !.header_type = type], "DecompressionError")
        ELSE [s1 EXCEPT !.header_type = type, !.copy_length = high, !.low5 = low,
                        !.pc = IF high = 0 THEN "literal"
                               ELSE IF high = 7 THEN
                                    (IF type = 0 THEN "ext" ELSE "chain")
                               ELSE "offset"]

\* take the control byte, split it, and on the first byte fix the header type
StepControl(s) ==
    LET value == take_one_value(s)
        s1    == [inc_index(s, 1) EXCEPT !.control_byte = value]
        high  == high_three_bits(value)
        low   == low_five_bits(value)
    IN  IF ~extract_bits_ok(value) THEN Raise(s1, "AssertionError")
        ELSE IF s.header_type = None
        THEN IF high \notin SupportedHeaders
             THEN Raise([s1 EXCEPT !.header_type = high], "DecompressionError")
             ELSE [s1 EXCEPT !.header_type = high, !.copy_length = 0,
                             !.low5 = low, !.pc = "literal"]
        ELSE [s1 EXCEPT !.copy_length = high, !.low5 = low,
                        !.pc = IF high = 0 THEN "literal"
                               ELSE IF high = 7 THEN
                                    (IF s.header_type = 0 THEN "ext" ELSE "chain")
                               ELSE "offset"]

\* mutant: the literal length misses its + 1
literal_length_NoPlusOne(s) == s.low5

\* decompressed.extend(compressed.take_n_bytes(literal_length))
literal_length(s) == s.low5 + 1

\* mutant: a literal run that is too long takes the bytes that are left
StepLiteral_Partial(s) ==
    LET n == literal_length(s)
    IN  IF ~take_n_bytes_ok(s, n)
        THEN Underflow([inc_index(s, get_remaining(s)) EXCEPT
                            !.out = s.out \o take_n_bytes_value(s, get_remaining(s))])
        ELSE [inc_index(s, n) EXCEPT !.out = s.out \o take_n_bytes_value(s, n),
                                     !.pc = "loop"]

StepLiteral(s) ==
    LET n == literal_length(s)
    IN  IF ~take_n_bytes_ok(s, n) THEN Underflow(s)
        ELSE [inc_index(s, n) EXCEPT !.out = s.out \o take_n_bytes_value(s, n),
                                     !.pc = "loop"]

\* mutant: the short variant chains on 0xFF like the long one
StepExt_Chains(s) ==
    IF ~take_one_ok(s) THEN Underflow(s)
    ELSE LET value == take_one_value(s)
         IN  [inc_index(s, 1) EXCEPT !.copy_length = s.copy_length + value,
                                     !.pc = IF value = 255 THEN "ext" ELSE "offset"]

\* mutant: the extension byte counts 256 times
StepExt_Shifted(s) ==
    IF ~take_one_ok(s) THEN Underflow(s)
    ELSE [inc_index(s, 1) EXCEPT !.copy_length = s.copy_length + 256 * take_one_value(s),
                                 !.pc = "offset"]

\* header type 000: copy_length += compressed.take_one()
StepExt(s) ==
    IF ~take_one_ok(s) THEN Underflow(s)
    ELSE [inc_index(s, 1) EXCEPT !.copy_length = s.copy_length + take_one_value(s),
                                 !.pc = "offset"]

\* mutant: the chain reads its byte without advancing the cursor
StepChain_NoAdvance(s) ==
    IF ~take_one_ok(s) THEN Underflow(s)
    ELSE LET value == take_one_value(s)
         IN  [s EXCEPT !.copy_length = s.copy_length + value,
                       !.pc = IF value = 255 THEN "chain" ELSE "offset"]

\* header type 001: one turn of `while value == 0xFF`
StepChain(s) ==
    IF ~take_one_ok(s) THEN Underflow(s)
    ELSE LET value == take_one_value(s)
         IN  [inc_index(s, 1) EXCEPT !.copy_length = s.copy_length + value,
                                     !.pc = IF value = 255 THEN "chain" ELSE "offset"]

\* mutant: the offset 0x1FFF is extended in the short variant too
StepOffset_ExtAlways(s) ==
    IF ~take_one_ok(s) THEN Underflow(s)
    ELSE LET off == s.low5 * 256 + take_one_value(s)
         IN  [inc_index(s, 1) EXCEPT !.lookback_offset = off,
                                     !.pc = IF off = 8191 THEN "offext" ELSE "copy"]

\* lookback_offset = (low5 << 8) | compressed.take_one()
StepOffset(s) ==
    IF ~take_one_ok(s) THEN Underflow(s)
    ELSE LET off == s.low5 * 256 + take_one_value(s)
         IN  [inc_index(s, 1) EXCEPT !.lookback_offset = off,
                                     !.pc = IF s.header_type = 1 /\ off = 8191
                                            THEN "offext" ELSE "copy"]

\* lookback_offset += compressed.take_two_be()
StepOffsetExt(s) ==
    IF ~take_two_be_ok(s) THEN Underflow(s)
    ELSE [inc_index(s, 2) EXCEPT !.lookback_offset = s.lookback_offset + take_two_be_value(s),
                                 !.pc = "copy"]

\* decompressed.lookback_n_take_m_bytes(1 + lookback_offset, 2 + copy_length)
copy_lookback(s) == 1 + s.lookback_offset
copy_count(s) == 2 + s.copy_length

StepCopy(s) ==
    IF ~lookback_ok(s.out, copy_lookback(s)) THEN Raise(s, "DecompressionError")
    ELSE [s EXCEPT !.out = s.out \o lookback_data(s.out, copy_lookback(s), copy_count(s)),
                   !.pc = "loop"]

\* mutant: the handler raises without the dump
StepHandler_NoDump(s) ==
    [s EXCEPT !.exc = "DecompressionError", !.errpos = s.index, !.pc = "raised"]

\* except Exception: dump(...); raise DecompressionError(... get_index() ...)
StepHandler(s) ==
    [s EXCEPT !.dumps = s.dumps + 1, !.exc = "DecompressionError",
              !.errpos = s.index, !.pc = "raised"]

DecEnded(s) == s.pc \in {"returned", "raised"}

DecStep(s) ==
    CASE s.pc = "loop"    -> IF get_remaining(s) > 0 THEN StepControl(s) ELSE StepLoopExit(s)
      [] s.pc = "literal" -> StepLiteral(s)
      [] s.pc = "ext"     -> StepExt(s)
      [] s.pc = "chain"   -> StepChain(s)
      [] s.pc = "offset"  -> StepOffset(s)
      [] s.pc = "offext"  -> StepOffsetExt(s)
      [] s.pc = "copy"    -> StepCopy(s)
      [] s.pc = "except"  -> StepHandler(s)
      [] OTHER            -> s

\* decompress(compressed_bytes) run to its end
RECURSIVE DecRun(_)
DecRun(s) == IF DecEnded(s) THEN s ELSE DecRun(DecStep(s))

decompress(compressed_bytes) == DecRun(NewDec(compressed_bytes))

-----------------------------------------------------------------------------
(* The decoder as a state machine over the variable dec *)

\* control bytes of both variants, extension bytes and unsupported headers
DecBytes == {0, 1, 32, 63, 64, 224, 255}

\* the decoder vectors of test_fastlz.py that fit a small model
TestVectors ==
    { <<0, 0, 224, 255, 0>>,
      <<32, 0, 0, 0, 0, 0, 0, 0>>,
      <<32, 0, 32, 0, 32, 0, 32, 0>>,
      <<32, 0, 224, 255, 255, 255, 255, 0, 0>>,
      <<36, 97, 98, 99, 100, 101, 224, 1, 4>>,
      <<0, 1, 2, 3, 4, 5, 6, 7, 8, 9, 10, 11, 12, 13>>,
      <<32, 0, 63, 255>>,
      \* test_decompress_1_f: an extended offset that is within the output
      <<32, 170, 224>> \o Repeat(<<255>>, 33) \o <<254, 0, 63, 255, 1, 2>>,
      \* as test_decompress_0_e with a repeated byte: distance 8192, short variant
      <<0, 170>> \o Repeat(<<224, 255, 0>>, 32) \o <<255, 255, 255>> }

DecInputs == SeqsUpTo(DecBytes, MaxLen) \cup TestVectors

\* the value of a variable whose program the specification does not run
Idle == [pc |-> "idle"]

InitDecode ==
    /\ dec \in {NewDec(x) : x \in DecInputs}
    /\ lb = Idle /\ rt = Idle /\ pk = Idle /\ un = Idle /\ pr = Idle /\ pa = Idle

DecLoopExit ==
    /\ dec.pc = "loop" /\ get_remaining(dec) = 0
    /\ dec' = StepLoopExit(dec)
    /\ UNCHANGED <<lb, rt, pk, un, pr, pa>>

DecControl ==
    /\ dec.pc = "loop" /\ get_remaining(dec) > 0
    /\ dec' = StepControl(dec)
    /\ UNCHANGED <<lb, rt, pk, un, pr, pa>>

DecLiteral ==
    /\ dec.pc = "literal"
    /\ dec' = StepLiteral(dec)
    /\ UNCHANGED <<lb, rt, pk, un, pr, pa>>

DecExt ==
    /\ dec.pc = "ext"
    /\ dec' = StepExt(dec)
    /\ UNCHANGED <<lb, rt, pk, un, pr, pa>>

DecChain ==
    /\ dec.pc = "chain"
    /\ dec' = StepChain(dec)
    /\ UNCHANGED <<lb, rt, pk, un, pr, pa>>

DecOffset ==
    /\ dec.pc = "offset"
    /\ dec' = StepOffset(dec)
    /\ UNCHANGED <<lb, rt, pk, un, pr, pa>>

DecOffsetExt ==
    /\ dec.pc = "offext"
    /\ dec' = StepOffsetExt(dec)
    /\ UNCHANGED <<lb, rt, pk, un, pr, pa>>

DecCopy ==
    /\ dec.pc = "copy"
    /\ dec' = StepCopy(dec)
    /\ UNCHANGED <<lb, rt, pk, un, pr, pa>>

DecHandler ==
    /\ dec.pc = "except"
    /\ dec' = StepHandler(dec)
    /\ UNCHANGED <<lb, rt, pk, un, pr, pa>>

NextDecode ==
    \/ DecLoopExit
    \/ DecControl
    \/ DecLiteral
    \/ DecExt
    \/ DecChain
    \/ DecOffset
    \/ DecOffsetExt
    \/ DecCopy
    \/ DecHandler

SpecDecode == InitDecode /\ [][NextDecode]_vars

\* decompress is one sequential call: it keeps running until it ends
FairDecode == SpecDecode /\ WF_vars(NextDecode)

-----------------------------------------------------------------------------
(* C2: decompress is total.  Along every run the cursor never moves back,  *)
(* every turn of the main loop and every turn of the 0xFF chain that does  *)
(* not raise consumes exactly one byte for its read, the call ends, and it *)
(* ends either returned or raised with DecompressionError.                 *)

C2_Consumes ==
    /\ dec'.index >= dec.index
    /\ (dec.pc = "loop" /\ dec'.pc # "returned") => dec'.index = dec.index + 1
    /\ (dec.pc = "chain" /\ dec'.pc # "except") => dec'.index = dec.index + 1
    /\ dec'.index <= Len(dec.data)

C2_Outcome ==
    /\ dec.pc \in {"loop", "literal", "ext", "chain", "offset", "offext", "copy",
                   "except", "returned", "raised"}
    /\ dec.pc = "returned" => dec.exc = "none"
    /\ dec.pc = "raised" => dec.exc = "DecompressionError"

C2_Total == [][C2_Consumes]_vars /\ []C2_Outcome /\ <>DecEnded(dec)

\* a long-variant chain of several 0xFF bytes was read and the call returned
C2_Witness ==
    /\ dec.pc = "returned"
    /\ dec.header_type = 1
    /\ dec.copy_length >= 7 + 255 + 255

-----------------------------------------------------------------------------
(* C3: an input whose first byte has top three bits other than 000 or 001  *)
(* never gets past the header: nothing is ever copied to the output, and   *)
(* the only states after the first read are the handler and the raise of   *)
(* DecompressionError.                                                     *)

UnsupportedFirst(s) ==
    /\ Len(s.data) > 0
    /\ high_three_bits(s.data[1]) \notin {0, 1}

C3_UnsupportedHeader ==
    UnsupportedFirst(dec) =>
        /\ dec.out = <<>>
        /\ \/ dec.pc = "loop" /\ dec.index = 0
           \/ dec.pc \in {"except", "raised"} /\ dec.index = 1
                 /\ dec.exc = "DecompressionError"

C3_Witness ==
    /\ UnsupportedFirst(dec)
    /\ Len(dec.data) >= 3
    /\ dec.pc = "raised"

-----------------------------------------------------------------------------
(* C5: the copy of a backreference raises DecompressionError, leaving the  *)
(* output as it was, exactly when 1 + offset exceeds the output length;    *)
(* otherwise it does not raise and appends 2 + copy_length bytes.  The     *)
(* handler does not touch the output either.                               *)

C5_CopyStep ==
    /\ dec.pc = "copy" =>
          IF 1 + dec.lookback_offset > Len(dec.out)
          THEN dec'.pc = "except" /\ dec'.exc = "DecompressionError"
                  /\ dec'.out = dec.out
          ELSE dec'.pc = "loop" /\ dec'.exc = "none"
                  /\ Len(dec'.out) = Len(dec.out) + 2 + dec.copy_length
    /\ dec.pc = "except" => dec'.out = dec.out /\ dec'.pc = "raised"

C5_Lookback == [][C5_CopyStep]_vars

\* a backreference reaching before the start of a non-empty output raised
C5_Witness ==
    /\ dec.pc = "raised"
    /\ Len(dec.out) > 0
    /\ dec.copy_length >= 1
    /\ dec.lookback_offset < 8191
    /\ 1 + dec.lookback_offset > Len(dec.out)

-----------------------------------------------------------------------------
(* lookback_n_take_m_bytes called once on a DecompressedStream of its own  *)

LbBytes == {0, 1, 2}

InitLookback ==
    /\ lb \in {[pc |-> "call", data |-> b, before |-> b, lookback |-> k, count |-> m] :
                  b \in SeqsUpTo(LbBytes, MaxBuf),
                  k \in 1..(MaxBuf + 1), m \in 0..MaxCount}
    /\ dec = Idle /\ rt = Idle /\ pk = Idle /\ un = Idle /\ pr = Idle /\ pa = Idle

LbRaise ==
    /\ lb.pc = "call"
    /\ ~lookback_ok(lb.data, lb.lookback)
    /\ lb' = [lb EXCEPT !.pc = "raised"]
    /\ UNCHANGED <<dec, rt, pk, un, pr, pa>>

LbExtend ==
    /\ lb.pc = "call"
    /\ lookback_ok(lb.data, lb.lookback)
    /\ lb' = [lb EXCEPT !.data = lb.data \o lookback_data(lb.data, lb.lookback, lb.count),
                        !.pc = "done"]
    /\ UNCHANGED <<dec, rt, pk, un, pr, pa>>

NextLookback == LbRaise \/ LbExtend

SpecLookback == InitLookback /\ [][NextLookback]_vars

\* the copy done one byte at a time, each byte read from the growing buffer
RECURSIVE ByteAtATime(_, _, _)
ByteAtATime(buf, k, m) ==
    IF m = 0 THEN buf
    ELSE ByteAtATime(Append(buf, buf[Len(buf) - k + 1]), k, m - 1)

(* C4: for a buffer of length L, 1 <= k <= L and m >= 0, the call appends  *)
(* exactly m bytes, the buffer equals the one a byte-at-a-time copy from   *)
(* position L - k builds, and the appended bytes repeat with period k.     *)
C4_ByteAtATime ==
    lb.pc = "done" =>
        LET L == Len(lb.before)
        IN  /\ Len(lb.data) = L + lb.count
            /\ SubSeq(lb.data, 1, L) = lb.before
            /\ lb.data = ByteAtATime(lb.before, lb.lookback, lb.count)
            /\ \A i \in 1..lb.count : lb.data[L + i] = lb.data[L + i - lb.lookback]

\* an overlapping copy whose count is not a multiple of the lookback
C4_Witness ==
    /\ lb.pc = "done"
    /\ lb.lookback = 2 /\ lb.count = 5
    /\ Len(lb.before) = 3
    /\ lb.before[2] # lb.before[3]

-----------------------------------------------------------------------------
(* compress of fastlz, the literal-only encoder: a header literal opcode   *)
(* (variant bits 000) for the first up to 32 bytes, then literal runs of   *)
(* up to 32 bytes; nothing at all for the empty input.                     *)

MaxLiteral == 32

RECURSIVE literal_runs(_)
literal_runs(raw) ==
    IF raw = <<>> THEN <<>>
    ELSE LET n == IF Len(raw) >= MaxLiteral THEN MaxLiteral ELSE Len(raw)
         IN  <<n - 1>> \o SubSeq(raw, 1, n) \o literal_runs(Drop(raw, n))

compress(raw) == literal_runs(raw)

\* raw inputs: every short sequence over a few bytes, and for every length
\* up to MaxRaw a ramp of bytes that passes through control byte values
RawBytes == {0, 31, 224}

Ramp(start, step, n) == [i \in 1..n |-> (start + step * (i - 1)) % 256]

RawInputs ==
    SeqsUpTo(RawBytes, 3)
        \cup {Ramp(a, b, n) : a \in {0, 30, 224}, b \in {0, 1, 37}, n \in 0..MaxRaw}

InitRoundTrip ==
    /\ rt \in {[pc |-> "raw", raw |-> x, compressed |-> <<>>, result |-> Idle] :
                  x \in RawInputs}
    /\ dec = Idle /\ lb = Idle /\ pk = Idle /\ un = Idle /\ pr = Idle /\ pa = Idle

RtCompress ==
    /\ rt.pc = "raw"
    /\ rt' = [rt EXCEPT !.compressed = compress(rt.raw), !.pc = "compressed"]
    /\ UNCHANGED <<dec, lb, pk, un, pr, pa>>

RtDecompress ==
    /\ rt.pc = "compressed"
    /\ rt' = [rt EXCEPT !.result = decompress(rt.compressed), !.pc = "done"]
    /\ UNCHANGED <<dec, lb, pk, un, pr, pa>>

NextRoundTrip == RtCompress \/ RtDecompress

SpecRoundTrip == InitRoundTrip /\ [][NextRoundTrip]_vars

(* C1: decompress(compress(x)) returns, and returns x, for every raw x,    *)
(* the empty one, single bytes and multiples of 32 included.               *)
C1_RoundTrip ==
    rt.pc = "done" =>
        /\ rt.result.pc = "returned"
        /\ rt.result.out = rt.raw

\* a round trip of 64 bytes, two full literal runs
C1_Witness ==
    /\ rt.pc = "done"
    /\ Len(rt.raw) = 2 * MaxLiteral
    /\ rt.raw[1] # rt.raw[33]
    /\ rt.result.out = rt.raw

-----------------------------------------------------------------------------
(* Python integers of any size, kept as their base 256 digits, lowest      *)
(* first and with no leading zero digit: 0 is the empty sequence.          *)

RECURSIVE IntDigits(_)
IntDigits(v) == IF v = 0 THEN <<>> ELSE <<v % 256>> \o IntDigits(v \div 256)

RECURSIVE Norm(_)
Norm(d) == IF d # <<>> /\ d[Len(d)] = 0 THEN Norm(SubSeq(d, 1, Len(d) - 1)) ELSE d

RECURSIVE DigitsInt(_)
DigitsInt(d) == IF d = <<>> THEN 0 ELSE d[1] + 256 * DigitsInt(Tail(d))

\* v << 8 and v >> 8
shl8(d) == IF d = <<>> THEN <<>> ELSE <<0>> \o d
shr8(d) == IF d = <<>> THEN <<>> ELSE Tail(d)

\* the raise of to_bytes in place of its bytes: no byte string
OverflowError == <<-2>>

\* int.to_bytes(n, byteorder="little"): OverflowError when it does not fit
to_bytes(d, n) ==
    IF Len(d) > n THEN OverflowError
    ELSE d \o [i \in 1..(n - Len(d)) |-> 0]

\* int.from_bytes(b, byteorder="little")
from_bytes(b) == Norm(b)

-----------------------------------------------------------------------------
(* crc32 of crc32_bzip2: polynomial 0x04C11DB7, register 0xFFFFFFFF at the *)
(* start, bytes taken highest bit first, no reflection, final XOR with     *)
(* 0xFFFFFFFF.  The register is a sequence of 32 bits, highest first.      *)

Width == 32

\* 0x04C11DB7
Poly == <<0,0,0,0, 0,1,0,0, 1,1,0,0, 0,0,0,1, 0,0,0,1, 1,1,0,1, 1,0,1,1, 0,1,1,1>>

RECURSIVE Xor(_, _)
Xor(a, b) ==
    IF a = <<>> THEN <<>> ELSE <<(a[1] + b[1]) % 2>> \o Xor(Tail(a), Tail(b))

ByteBits(b) == [i \in 1..8 |-> (b \div (2 ^ (8 - i))) % 2]

BitsByte(bits) ==
    bits[1] * 128 + bits[2] * 64 + bits[3] * 32 + bits[4] * 16
        + bits[5] * 8 + bits[6] * 4 + bits[7] * 2 + bits[8]

ShiftLeft1(reg) == Tail(reg) \o <<0>>

RECURSIVE CrcShift(_, _)
CrcShift(reg, n) ==
    IF n = 0 THEN reg
    ELSE CrcShift(IF reg[1] = 1 THEN Xor(ShiftLeft1(reg), Poly) ELSE ShiftLeft1(reg),
                  n - 1)

CrcByte(reg, b) ==
    CrcShift(Xor(reg, ByteBits(b) \o [i \in 1..(Width - 8) |-> 0]), 8)

RECURSIVE CrcFrom(_, _, _)
CrcFrom(reg, data, i) ==
    IF i > Len(data) \/ Len(reg) # Width THEN reg
    ELSE CrcFrom(CrcByte(reg, data[i]), data, i + 1)

CrcBytes(reg, data) == CrcFrom(reg, data, 1)

\* the 32 bit register as a Python integer
RegInt(reg) ==
    Norm(<<BitsByte(SubSeq(reg, 25, 32)), BitsByte(SubSeq(reg, 17, 24)),
           BitsByte(SubSeq(reg, 9, 16)), BitsByte(SubSeq(reg, 1, 8))>>)

crc32(data) ==
    LET ones == [i \in 1..Width |-> 1]
    IN  RegInt(Xor(CrcBytes(ones, data), ones))

-----------------------------------------------------------------------------
(* pack.py: write_header *)

Magic == <<84, 80, 68, 67>>        \* b"TPDC"

Versions == {256, 512, 768}        \* 0x100, 0x200, 0x300

\* mutant: version 0x100 gets the unk1 width of the later versions
unk1_size_AllFour(header_version) == 4

unk1_size(header_version) ==
    CASE header_version = 256 -> 2
      [] header_version = 512 -> 4
      [] header_version = 768 -> 4

unk5_size(header_version) ==
    CASE header_version = 256 -> 4
      [] header_version = 512 -> 4
      [] header_version = 768 -> 8

RECURSIVE thing_fields(_)
thing_fields(thing) ==
    IF thing = <<>> THEN <<>>
    ELSE << <<IntDigits(thing[1].lower), 2>>, <<IntDigits(thing[1].upper), 2>> >>
            \o thing_fields(Tail(thing))

\* the to_bytes calls of lines 42-68 in order, each as <<value, width>>
header_fields(header_version, data_offset, header_data) ==
    << <<IntDigits(header_version), 2>>,
       <<IntDigits(data_offset), 4>>,
       <<IntDigits(header_data.unk0), 2>>,
       <<IntDigits(header_data.unk1), unk1_size(header_version)>>,
       <<IntDigits(header_data.capture_save_time), 4>>,
       <<IntDigits(header_data.data_version), 2>>,
       <<IntDigits(header_data.unk3), 4>>,
       <<IntDigits(header_data.unk4), 4>>,
       <<IntDigits(header_data.unk5), unk5_size(header_version)>>,
       <<IntDigits(header_data.num_thing), 2>> >>
        \o thing_fields(header_data.thing)

\* the writes in order; the first value that does not fit its width stops them
RECURSIVE write_fields(_, _)
write_fields(f, fields) ==
    IF fields = <<>> THEN [f |-> f, error |-> "none"]
    ELSE LET b == to_bytes(fields[1][1], fields[1][2])
         IN  IF b = OverflowError THEN [f |-> f, error |-> "OverflowError"]
             ELSE write_fields(f \o b, Tail(fields))

\* bytes([0] * padding_len)
padding(padding_len) == [i \in 1..padding_len |-> 0]

\* write_header on a file just opened for writing: the file, the error
\* raised if any, and header_len as tell() gave it
write_header(header_version, data_offset, header_data) ==
    LET w == write_fields(Magic, header_fields(header_version, data_offset, header_data))
        header_len == Len(w.f)
        padding_len == data_offset - header_len
    IN  IF w.error # "none"
        THEN [f |-> w.f, error |-> w.error, header_len |-> None]
        ELSE IF ~(padding_len >= 0)
        THEN [f |-> w.f, error |-> "AssertionError", header_len |-> header_len]
        ELSE [f |-> w.f \o padding(padding_len), error |-> "none",
              header_len |-> header_len]

-----------------------------------------------------------------------------
(* pack.py: main, from the metadata on *)

\* a block_N.bin that does not exist: no byte string
Absent == <<-1>>

\* mutant: the compressed length is written unshifted
len_field_NoShift(compressed_len) == to_bytes(IntDigits(compressed_len), 4)

\* (len(compressed) << 8).to_bytes(4, byteorder="little")
len_field(compressed_len) == to_bytes(shl8(IntDigits(compressed_len)), 4)

\* mutant: the CRC is written highest byte first
crc_field_BigEndian(decompressed) ==
    LET b == to_bytes(crc32(decompressed), 4) IN <<b[4], b[3], b[2], b[1]>>

\* crc32(decompressed).to_bytes(4, byteorder="little")
crc_field(decompressed) == to_bytes(crc32(decompressed), 4)

block_exists(input_dir, n) == n < Len(input_dir) /\ input_dir[n + 1] # Absent

RawBlocks == {<<>>, <<7>>, <<0, 224, 1>>}

\* the (lower, upper) entries of a header, two values in turn
PkThings ==
    [i \in 1..MaxThings |-> IF i % 2 = 1 THEN [lower |-> 1, upper |-> 515]
                                         ELSE [lower |-> 65535, upper |-> 0]]

PkHeaders ==
    {[unk0 |-> 258, unk1 |-> u1, capture_save_time |-> 1700000000,
      data_version |-> 3, unk3 |-> 67305985, unk4 |-> 0, unk5 |-> 84281096,
      num_thing |-> n, thing |-> SubSeq(PkThings, 1, n)] :
        u1 \in {0, 65535}, n \in 0..MaxThings}

\* data offsets from below the smallest header to past the largest
MinOffset == 32
MaxOffset == 40 + 4 * MaxThings + MaxPad

InputDirs == {d \in SeqsUpTo(RawBlocks \cup {Absent}, MaxBlocks) : Len(d) = MaxBlocks}

InitPack ==
    /\ pk \in {[pc |-> "header", header_version |-> v, data_offset |-> o,
                header_data |-> h, input_dir |-> d, f |-> <<>>, header_len |-> None,
                block_count |-> 0, error |-> "none", reported |-> None,
                parsed |-> Idle] :
                  v \in Versions, o \in MinOffset..MaxOffset, h \in PkHeaders,
                  d \in InputDirs}
    /\ dec = Idle /\ lb = Idle /\ rt = Idle /\ un = Idle /\ pr = Idle /\ pa = Idle

\* lines 100-101 when write_header returns
PkWriteHeader ==
    /\ pk.pc = "header"
    /\ LET w == write_header(pk.header_version, pk.data_offset, pk.header_data)
       IN  /\ w.error = "none"
           /\ pk' = [pk EXCEPT !.f = w.f, !.header_len = w.header_len, !.pc = "blocks"]
    /\ UNCHANGED <<dec, lb, rt, un, pr, pa>>

\* lines 100-101 when write_header raises: the file keeps what was written
PkHeaderFails ==
    /\ pk.pc = "header"
    /\ LET w == write_header(pk.header_version, pk.data_offset, pk.header_data)
       IN  /\ w.error # "none"
           /\ pk' = [pk EXCEPT !.f = w.f, !.header_len = w.header_len,
                               !.error = w.error, !.pc = "crashed"]
    /\ UNCHANGED <<dec, lb, rt, un, pr, pa>>

\* lines 105-117: one block file read, compressed and written
PkBlock ==
    /\ pk.pc = "blocks"
    /\ block_exists(pk.input_dir, pk.block_count)
    /\ LET decompressed == pk.input_dir[pk.block_count + 1]
           compressed   == compress(decompressed)
           field        == len_field(Len(compressed))
       IN  IF field = OverflowError
           THEN pk' = [pk EXCEPT !.error = "OverflowError", !.pc = "crashed"]
           ELSE pk' = [pk EXCEPT !.f = pk.f \o field \o crc_field(decompressed)
                                          \o compressed,
                                 !.block_count = pk.block_count + 1]
    /\ UNCHANGED <<dec, lb, rt, un, pr, pa>>

\* mutant: the report counts the index of the missing file as a block
PkBreak_ReportsNext ==
    /\ pk.pc = "blocks"
    /\ ~block_exists(pk.input_dir, pk.block_count)
    /\ pk' = [pk EXCEPT !.reported = pk.block_count + 1, !.pc = "done"]
    /\ UNCHANGED <<dec, lb, rt, un, pr, pa>>

\* lines 107-108 and 119: the first missing block file ends the loop
PkBreak ==
    /\ pk.pc = "blocks"
    /\ ~block_exists(pk.input_dir, pk.block_count)
    /\ pk' = [pk EXCEPT !.reported = pk.block_count, !.pc = "done"]
    /\ UNCHANGED <<dec, lb, rt, un, pr, pa>>

-----------------------------------------------------------------------------
(* Tdc.from_file of tdc.py, the read path: magic, version, data offset,    *)
(* the header fields in their widths, the (lower, upper) entries, then     *)
(* from data_offset on one record after another to the end of the file.    *)

Unk1Width(version) == IF version = 256 THEN 2 ELSE 4
Unk5Width(version) == IF version = 768 THEN 8 ELSE 4

ParserError(kind) == [ok |-> FALSE, error |-> kind]

\* the unsigned little-endian integer of `width` bytes after position pos
read_le(b, pos, width) == DigitsInt(from_bytes(SubSeq(b, pos + 1, pos + width)))

RECURSIVE read_things(_, _, _)
read_things(b, pos, n) ==
    IF n = 0 THEN <<>>
    ELSE <<[lower |-> read_le(b, pos, 2), upper |-> read_le(b, pos + 2, 2)]>>
            \o read_things(b, pos + 4, n - 1)

\* the records from pos to the end of the file; ok is FALSE when the file
\* ends inside a record
RECURSIVE read_records(_, _)
read_records(b, pos) ==
    IF pos >= Len(b) THEN [ok |-> TRUE, blocks |-> <<>>]
    ELSE IF pos + 8 > Len(b) THEN [ok |-> FALSE, blocks |-> <<>>]
    ELSE LET len_field_value == from_bytes(SubSeq(b, pos + 1, pos + 4))
             compressed_len  == DigitsInt(shr8(len_field_value))
             stored_crc      == from_bytes(SubSeq(b, pos + 5, pos + 8))
         IN  IF pos + 8 + compressed_len > Len(b) THEN [ok |-> FALSE, blocks |-> <<>>]
             ELSE LET rest == read_records(b, pos + 8 + compressed_len)
                  IN  [ok |-> rest.ok,
                       blocks |-> <<[crc32 |-> stored_crc,
                                     data |-> SubSeq(b, pos + 9, pos + 8 + compressed_len)]>>
                                     \o rest.blocks]

from_file(b) ==
    IF Len(b) < 4 \/ SubSeq(b, 1, 4) # Magic THEN ParserError("BadMagic")
    ELSE IF Len(b) < 6 THEN ParserError("TruncatedRecord")
    ELSE LET version == read_le(b, 4, 2)
         IN  IF version \notin Versions THEN ParserError("UnsupportedVersion")
             ELSE LET u1 == Unk1Width(version)
                      u5 == Unk5Width(version)
                      fixed == 10 + 2 + u1 + 4 + 2 + 4 + 4 + u5 + 2
                  IN  IF Len(b) < fixed THEN ParserError("TruncatedRecord")
                      ELSE LET data_offset == read_le(b, 6, 4)
                               num_thing == read_le(b, fixed - 2, 2)
                               end == fixed + 4 * num_thing
                               header ==
                                   [unk0 |-> read_le(b, 10, 2),
                                    unk1 |-> read_le(b, 12, u1),
                                    capture_save_time |-> read_le(b, 12 + u1, 4),
                                    data_version |-> read_le(b, 16 + u1, 2),
                                    unk3 |-> read_le(b, 18 + u1, 4),
                                    unk4 |-> read_le(b, 22 + u1, 4),
                                    unk5 |-> read_le(b, 26 + u1, u5),
                                    num_thing |-> num_thing,
                                    thing |-> read_things(b, fixed, num_thing)]
                           IN  IF Len(b) < end THEN ParserError("TruncatedRecord")
                               ELSE IF end > data_offset THEN ParserError("HeaderOverrun")
                               ELSE LET records == read_records(b, data_offset)
                                    IN  IF ~records.ok
                                        THEN ParserError("TruncatedRecord")
                                        ELSE [ok |-> TRUE, error |-> "none",
                                              header_version |-> version,
                                              data_offset |-> data_offset,
                                              header |-> header,
                                              blocks |-> records.blocks]

\* the file pack wrote, read back
PkReadBack ==
    /\ pk.pc = "done"
    /\ pk' = [pk EXCEPT !.parsed = from_file(pk.f), !.pc = "read"]
    /\ UNCHANGED <<dec, lb, rt, un, pr, pa>>

NextPack ==
    \/ PkWriteHeader
    \/ PkHeaderFails
    \/ PkBlock
    \/ PkBreak
    \/ PkReadBack

SpecPack == InitPack /\ [][NextPack]_vars

-----------------------------------------------------------------------------
(* C6: every record pack writes is the 4 bytes of compressed_len << 8, low *)
(* byte first (so the first byte is zero, the other three are the length   *)
(* and the field shifted right by 8 is the length again), the 4 bytes of   *)
(* the CRC of the raw block low byte first, then the compressed_len bytes  *)
(* of the body; and the length field of a length of 2^24 or more is never  *)
(* bytes at all, the conversion raises instead.                            *)

LengthCases == {0, 1, 255, 256, 65536, 16777215, 16777216, 16777217, 33554432}

C6_FieldOf(n) ==
    IF n < 16777216
    THEN /\ len_field(n) # OverflowError
         /\ Len(len_field(n)) = 4
         /\ len_field(n)[1] = 0
         /\ DigitsInt(SubSeq(len_field(n), 2, 4)) = n
         /\ DigitsInt(shr8(from_bytes(len_field(n)))) = n
    ELSE len_field(n) = OverflowError

C6_BlockStep ==
    (pk.pc = "blocks" /\ pk'.pc = "blocks" /\ pk'.block_count = pk.block_count + 1) =>
        LET raw    == pk.input_dir[pk.block_count + 1]
            record == Drop(pk'.f, Len(pk.f))
            n      == Len(record) - 8
        IN  /\ SubSeq(pk'.f, 1, Len(pk.f)) = pk.f
            /\ n >= 0
            /\ n < 16777216
            /\ record[1] = 0
            /\ DigitsInt(SubSeq(record, 2, 4)) = n
            /\ DigitsInt(shr8(from_bytes(SubSeq(record, 1, 4)))) = n
            /\ from_bytes(SubSeq(record, 5, 8)) = crc32(raw)
            /\ Drop(record, 8) = compress(raw)

C6_Record == [][C6_BlockStep /\ \A n \in LengthCases : C6_FieldOf(n)]_vars

\* two records written, the second with a body of its own
C6_Witness ==
    /\ pk.pc = "done"
    /\ pk.block_count = 2
    /\ pk.input_dir[2] = <<0, 224, 1>>
    /\ Len(pk.f) > pk.data_offset + 16

-----------------------------------------------------------------------------
(* C7: write_header returns exactly when data_offset is at least the sum   *)
(* of the field widths of the version plus 4 bytes per entry; then the     *)
(* file ends at data_offset and is zero from the last entry on; otherwise  *)
(* the assertion on the padding length fails.                              *)

\* magic, version, data_offset, unk0, unk1, capture_save_time, data_version,
\* unk3, unk4, unk5, num_thing
C7_FixedSize(version) ==
    4 + 2 + 4 + 2 + Unk1Width(version) + 4 + 2 + 4 + 4 + Unk5Width(version) + 2

C7_Fits == pk.data_offset >= C7_FixedSize(pk.header_version) + 4 * pk.header_data.num_thing

C7_HeaderStep ==
    pk.pc = "header" =>
        IF C7_Fits
        THEN /\ pk'.pc = "blocks"
             /\ Len(pk'.f) = pk.data_offset
             /\ \A i \in (C7_FixedSize(pk.header_version) + 4 * pk.header_data.num_thing + 1)
                            ..pk.data_offset : pk'.f[i] = 0
        ELSE pk'.pc = "crashed" /\ pk'.error = "AssertionError"

C7_Header == [][C7_HeaderStep]_vars

\* a version 0x100 header with two entries and padding was written
C7_Witness ==
    /\ pk.pc = "blocks" /\ pk.block_count = 0
    /\ pk.header_version = 256
    /\ pk.header_data.num_thing = 2
    /\ Len(pk.f) = 34 + 8 + 2

-----------------------------------------------------------------------------
(* C9: the file pack wrote, read back, has one record per raw block that   *)
(* pack found, in the same order; each body decompresses to its raw block  *)
(* and each stored CRC is the CRC of that raw block.                       *)

RECURSIVE PackedCount(_)
PackedCount(input_dir) ==
    IF input_dir = <<>> \/ input_dir[1] = Absent THEN 0
    ELSE 1 + PackedCount(Tail(input_dir))

C9_ContainerRoundTrip ==
    pk.pc = "read" =>
        /\ pk.parsed.ok
        /\ pk.parsed.header_version = pk.header_version
        /\ pk.parsed.data_offset = pk.data_offset
        /\ Len(pk.parsed.blocks) = PackedCount(pk.input_dir)
        /\ \A i \in 1..Len(pk.parsed.blocks) :
              /\ decompress(pk.parsed.blocks[i].data).pc = "returned"
              /\ decompress(pk.parsed.blocks[i].data).out = pk.input_dir[i]
              /\ pk.parsed.blocks[i].crc32 = crc32(pk.input_dir[i])

\* two different blocks came back from a padded version 0x300 file
C9_Witness ==
    /\ pk.pc = "read"
    /\ pk.header_version = 768
    /\ pk.data_offset > 40 + 4 * pk.header_data.num_thing
    /\ Len(pk.parsed.blocks) = 2
    /\ pk.input_dir = << <<7>>, <<0, 224, 1>> >>

-----------------------------------------------------------------------------
(* Container files given to unpack.py and process.py: a version 0x200      *)
(* header, records whose bodies decompress or fail and whose stored CRC is *)
(* right or wrong, and then possibly a damaged magic, an unknown version   *)
(* or a missing last byte.                                                 *)

Bodies ==
    { <<>>,                  \* decompresses to nothing
      <<0, 7>>,              \* a one byte literal
      <<0, 5, 32, 0>>,       \* a literal and a backreference
      <<224>>,               \* unsupported header
      <<1, 9>> }             \* literal run past the end of the input

WrongCrc == <<1, 2, 3, 4>>

RecordChoices == {[data |-> b, crc32 |-> c] : b \in Bodies, c \in {"right", "wrong"}}

stored_crc_of(choice) ==
    IF choice.crc32 = "right" THEN crc32(decompress(choice.data).out) ELSE WrongCrc

RECURSIVE record_bytes(_)
record_bytes(choices) ==
    IF choices = <<>> THEN <<>>
    ELSE len_field(Len(choices[1].data)) \o to_bytes(stored_crc_of(choices[1]), 4)
            \o choices[1].data \o record_bytes(Tail(choices))

FileHeader ==
    write_header(512, 38,
        [unk0 |-> 258, unk1 |-> 1, capture_save_time |-> 1700000000,
         data_version |-> 3, unk3 |-> 2, unk4 |-> 0, unk5 |-> 5,
         num_thing |-> 0, thing |-> <<>>]).f

Damages == {"none", "magic", "version", "short"}

Damage(b, how) ==
    CASE how = "none"    -> b
      [] how = "magic"   -> [b EXCEPT ![1] = 0]
      [] how = "version" -> [b EXCEPT ![6] = 4]
      [] how = "short"   -> SubSeq(b, 1, Len(b) - 1)

ContainerFiles ==
    {Damage(FileHeader \o record_bytes(r), how) :
        r \in SeqsUpTo(RecordChoices, MaxRecords), how \in Damages}

\* mutant: the CRC comparison never reports a mismatch
crc_mismatch_Never(expected_crc, actual_crc) == FALSE

\* expected_crc != actual_crc
crc_mismatch(expected_crc, actual_crc) == expected_crc # actual_crc

-----------------------------------------------------------------------------
(* unpack.py: main, from the parse of the input file on *)

InitUnpack ==
    /\ un \in {[pc |-> "parse", file |-> b, tdc_file |-> Idle, i |-> 0,
                metadata |-> FALSE, written |-> <<>>, exit_code |-> None,
                error |-> "none"] : b \in ContainerFiles}
    /\ dec = Idle /\ lb = Idle /\ rt = Idle /\ pk = Idle /\ pr = Idle /\ pa = Idle

\* lines 45-78: parse, exit 1 on a failure, else write metadata.json
UnParse ==
    /\ un.pc = "parse"
    /\ LET t == from_file(un.file)
       IN  IF ~t.ok
           THEN un' = [un EXCEPT !.tdc_file = t, !.error = "ParserError",
                                 !.exit_code = 1, !.pc = "exited"]
           ELSE un' = [un EXCEPT !.tdc_file = t, !.metadata = TRUE, !.pc = "blocks"]
    /\ UNCHANGED <<dec, lb, rt, pk, pr, pa>>

\* lines 81-93: one block decompressed, verified and written; an exception
\* that nothing catches ends the interpreter with exit code 1
UnBlock ==
    /\ un.pc = "blocks"
    /\ un.i < Len(un.tdc_file.blocks)
    /\ LET block == un.tdc_file.blocks[un.i + 1]
           d     == decompress(block.data)
       IN  IF d.pc = "raised"
           THEN un' = [un EXCEPT !.error = "DecompressionError", !.exit_code = 1,
                                 !.pc = "exited"]
           ELSE IF crc_mismatch(block.crc32, crc32(d.out))
           THEN un' = [un EXCEPT !.error = "ValueError", !.exit_code = 1,
                                 !.pc = "exited"]
           ELSE un' = [un EXCEPT !.written = Append(un.written,
                                                    [name |-> un.i, data |-> d.out]),
                                 !.i = un.i + 1]
    /\ UNCHANGED <<dec, lb, rt, pk, pr, pa>>

\* line 95: the loop is over
UnFinish ==
    /\ un.pc = "blocks"
    /\ un.i = Len(un.tdc_file.blocks)
    /\ un' = [un EXCEPT !.exit_code = 0, !.pc = "exited"]
    /\ UNCHANGED <<dec, lb, rt, pk, pr, pa>>

NextUnpack == UnParse \/ UnBlock \/ UnFinish

SpecUnpack == InitUnpack /\ [][NextUnpack]_vars

\* block i of the parsed container decompresses and matches its stored CRC
GoodBlock(block) ==
    /\ decompress(block.data).pc = "returned"
    /\ crc32(decompress(block.data).out) = block.crc32

(* C8: block_i.bin is written only when block i, and every block before   *)
(* it, decompressed and matched its stored CRC; the run that meets a first *)
(* bad block i ends there with exactly block_0 .. block_(i-1) written, and *)
(* a run whose parse failed wrote no block at all.                         *)
C8_WrittenOnlyIfGood ==
    /\ \A w \in 1..Len(un.written) :
          /\ un.tdc_file.ok
          /\ un.written[w].name = w - 1
          /\ w <= Len(un.tdc_file.blocks)
          /\ \A j \in 1..w : GoodBlock(un.tdc_file.blocks[j])
          /\ un.written[w].data = decompress(un.tdc_file.blocks[w].data).out
    /\ (un.pc = "exited" /\ ~un.tdc_file.ok) => un.written = <<>> /\ un.exit_code = 1
    /\ (un.pc = "exited" /\ un.tdc_file.ok) =>
          LET bad == {j \in 1..Len(un.tdc_file.blocks) : ~GoodBlock(un.tdc_file.blocks[j])}
          IN  IF bad = {}
              THEN Len(un.written) = Len(un.tdc_file.blocks) /\ un.exit_code = 0
              ELSE /\ \A j \in bad : Len(un.written) < j
                   /\ Len(un.written) + 1 \in bad
                   /\ un.exit_code = 1

\* a good block was written, then a CRC mismatch ended the run
C8_Witness ==
    /\ un.pc = "exited"
    /\ un.error = "ValueError"
    /\ Len(un.written) = 1
    /\ Len(un.tdc_file.blocks) = 2
    /\ un.written[1].data = <<5, 5, 5, 5>>

-----------------------------------------------------------------------------
(* process.py: main, from the opening of the output file on *)

InitProcess ==
    /\ pr \in {[pc |-> "parse", file |-> b, tdc_file |-> Idle, i |-> 0,
                output |-> <<>>, compressed_len_total |-> 0,
                decompressed_len_total |-> 0, exit_code |-> None,
                error |-> "none"] : b \in ContainerFiles}
    /\ dec = Idle /\ lb = Idle /\ rt = Idle /\ pk = Idle /\ un = Idle /\ pa = Idle

\* line 50: nothing catches what Tdc.from_file raises
PrParse ==
    /\ pr.pc = "parse"
    /\ LET t == from_file(pr.file)
       IN  IF ~t.ok
           THEN pr' = [pr EXCEPT !.tdc_file = t, !.error = "ParserError",
                                 !.exit_code = 1, !.pc = "exited"]
           ELSE pr' = [pr EXCEPT !.tdc_file = t, !.pc = "blocks"]
    /\ UNCHANGED <<dec, lb, rt, pk, un, pa>>

\* lines 51-64: one block decompressed, verified and appended to the output
PrBlock ==
    /\ pr.pc = "blocks"
    /\ pr.i < Len(pr.tdc_file.blocks)
    /\ LET block == pr.tdc_file.blocks[pr.i + 1]
           d     == decompress(block.data)
           total == pr.compressed_len_total + Len(block.data)
       IN  IF d.pc = "raised"
           THEN pr' = [pr EXCEPT !.compressed_len_total = total,
                                 !.error = "DecompressionError", !.exit_code = 1,
                                 !.pc = "exited"]
           ELSE IF crc_mismatch(block.crc32, crc32(d.out))
           THEN pr' = [pr EXCEPT !.compressed_len_total = total,
                                 !.decompressed_len_total =
                                     pr.decompressed_len_total + Len(d.out),
                                 !.error = "ValueError", !.exit_code = 1,
                                 !.pc = "exited"]
           ELSE pr' = [pr EXCEPT !.compressed_len_total = total,
                                 !.decompressed_len_total =
                                     pr.decompressed_len_total + Len(d.out),
                                 !.output = pr.output \o d.out,
                                 !.i = pr.i + 1]
    /\ UNCHANGED <<dec, lb, rt, pk, un, pa>>

\* lines 66-68: the loop is over; the ratio of line 68 divides by
\* decompressed_len_total
PrFinish ==
    /\ pr.pc = "blocks"
    /\ pr.i = Len(pr.tdc_file.blocks)
    /\ IF pr.decompressed_len_total = 0
       THEN pr' = [pr EXCEPT !.error = "ZeroDivisionError", !.exit_code = 1,
                             !.pc = "exited"]
       ELSE pr' = [pr EXCEPT !.exit_code = 0, !.pc = "exited"]
    /\ UNCHANGED <<dec, lb, rt, pk, un, pa>>

NextProcess == PrParse \/ PrBlock \/ PrFinish

SpecProcess == InitProcess /\ [][NextProcess]_vars

(* C10: process ends with exit code 0 whenever the container parses and    *)
(* every block decompresses and matches its stored CRC, whatever the       *)
(* number of blocks and the size of their payloads, and with exit code 1   *)
(* on a parse failure, a decompression failure or a CRC mismatch.          *)
C10_ExitCodes ==
    pr.pc = "exited" =>
        IF pr.tdc_file.ok
              /\ \A j \in 1..Len(pr.tdc_file.blocks) : GoodBlock(pr.tdc_file.blocks[j])
        THEN pr.exit_code = 0
        ELSE pr.exit_code = 1

-----------------------------------------------------------------------------
(* C11: the dump of the two streams is done exactly once in a call that    *)
(* fails, by the handler and so before its raise, and not at all in a call *)
(* that returns or is still running.                                       *)

C11_DumpCount ==
    /\ dec.pc = "raised" => dec.dumps = 1
    /\ dec.pc # "raised" => dec.dumps = 0

C11_DumpStep ==
    dec'.dumps # dec.dumps =>
        /\ dec.pc = "except"
        /\ dec'.pc = "raised"
        /\ dec'.dumps = dec.dumps + 1
        /\ dec'.out = dec.out /\ dec'.data = dec.data

C11_DumpOnce == []C11_DumpCount /\ [][C11_DumpStep]_vars

\* a call that failed with part of the output written has dumped once
C11_Witness ==
    /\ dec.pc = "raised"
    /\ dec.dumps = 1
    /\ Len(dec.out) >= 2

-----------------------------------------------------------------------------
(* C12: what pack has written after the header is at every moment the      *)
(* records of block_0.bin .. block_{block_count-1}.bin in that order, each *)
(* the length field, the CRC and the compression of its block; the file    *)
(* only grows at its end, one block index at a time; the loop ends at the  *)
(* first index whose file is missing, so no block after a gap is written,  *)
(* and the count reported is the number of records written.                *)

RECURSIVE C12_Records(_, _)
C12_Records(input_dir, k) ==
    IF k = 0 THEN <<>>
    ELSE C12_Records(input_dir, k - 1)
            \o len_field(Len(compress(input_dir[k])))
            \o crc_field(input_dir[k])
            \o compress(input_dir[k])

C12_State ==
    pk.pc \in {"blocks", "done", "read"} =>
        /\ pk.block_count <= PackedCount(pk.input_dir)
        /\ Len(pk.f) >= pk.data_offset
        /\ Drop(pk.f, pk.data_offset) = C12_Records(pk.input_dir, pk.block_count)
        /\ pk.pc # "blocks" =>
              /\ pk.block_count = PackedCount(pk.input_dir)
              /\ pk.reported = pk.block_count

C12_Step ==
    pk.pc = "blocks" =>
        /\ SubSeq(pk'.f, 1, Len(pk.f)) = pk.f
        /\ pk'.block_count \in {pk.block_count, pk.block_count + 1}
        /\ pk'.block_count = pk.block_count <=>
              (pk.block_count >= Len(pk.input_dir)
                 \/ pk.input_dir[pk.block_count + 1] = Absent)
        /\ pk'.block_count = pk.block_count => pk'.f = pk.f /\ pk'.pc = "done"

C12_InOrder == []C12_State /\ [][C12_Step]_vars

\* block_0.bin is missing and block_1.bin is not: nothing was packed
C12_Witness ==
    /\ pk.pc = "done"
    /\ pk.input_dir[1] = Absent /\ pk.input_dir[2] = <<0, 224, 1>>
    /\ pk.reported = 0
    /\ Len(pk.f) = pk.data_offset

-----------------------------------------------------------------------------
(* C13: on a non-empty input the header type is the top three bits of the  *)
(* first byte from the first read on and never changes; the first byte is  *)
(* decoded as a literal run of low5 + 1 bytes whatever its top bits, so a  *)
(* backreference is only ever decoded after that run has been copied.      *)

C13_HeaderLiteral(s) == SubSeq(s.data, 2, low_five_bits(s.data[1]) + 2)

C13_State ==
    /\ dec.header_type = None <=> dec.index = 0
    /\ dec.index > 0 => dec.header_type = high_three_bits(dec.data[1])
    /\ dec.pc \in {"ext", "chain", "offset", "offext", "copy"} =>
          /\ dec.header_type \in {0, 1}
          /\ dec.index >= low_five_bits(dec.data[1]) + 3
          /\ Len(dec.out) >= low_five_bits(dec.data[1]) + 1
          /\ SubSeq(dec.out, 1, low_five_bits(dec.data[1]) + 1) = C13_HeaderLiteral(dec)
    /\ (dec.pc = "returned" /\ Len(dec.data) > 0) =>
          SubSeq(dec.out, 1, low_five_bits(dec.data[1]) + 1) = C13_HeaderLiteral(dec)

C13_Step ==
    /\ dec.header_type # None => dec'.header_type = dec.header_type
    /\ (dec.pc = "loop" /\ dec.index = 0 /\ dec'.pc # "returned") =>
          IF high_three_bits(dec.data[1]) \in {0, 1}
          THEN /\ dec'.pc = "literal"
               /\ dec'.copy_length = 0
               /\ dec'.low5 = low_five_bits(dec.data[1])
          ELSE dec'.pc = "except"
    /\ (dec.pc = "literal" /\ dec.index = 1) =>
          IF Len(dec.data) >= low_five_bits(dec.data[1]) + 2
          THEN /\ dec'.pc = "loop"
               /\ dec'.out = C13_HeaderLiteral(dec)
               /\ dec'.index = low_five_bits(dec.data[1]) + 2
          ELSE dec'.pc = "except" /\ dec'.out = <<>>

C13_HeaderIsLiteral == []C13_State /\ [][C13_Step]_vars

\* header 0x24: long variant, five literals, then a backreference was copied
C13_Witness ==
    /\ dec.pc = "returned"
    /\ Len(dec.data) = 9
    /\ dec.data[1] = 36
    /\ dec.header_type = 1
    /\ SubSeq(dec.out, 1, 5) = <<97, 98, 99, 100, 101>>
    /\ Len(dec.out) = 15

-----------------------------------------------------------------------------
(* C14: a backreference control byte with top bits 1..6 reads no length    *)
(* extension; with top bits 7 the short variant reads exactly one byte e   *)
(* and the length code is 7 + e, 0xFF included; the long variant reads     *)
(* bytes up to and including the first that is not 0xFF and the code is    *)
(* 7 + 255 * k + last after k bytes of 0xFF.  The code is not touched      *)
(* afterwards and the copy appends 2 + code bytes.                         *)

\* the number of 0xFF bytes a long-variant code stands for
C14_Chained(code) == (code - 7) \div 255

C14_AllFF(s, from, to) == \A i \in from..to : s.data[i] = 255

C14_State ==
    /\ dec.pc = "chain" =>
          LET k == C14_Chained(dec.copy_length)
          IN  /\ dec.header_type = 1
              /\ dec.copy_length = 7 + 255 * k
              /\ dec.index - k >= 1
              /\ dec.data[dec.index - k] = dec.control_byte
              /\ high_three_bits(dec.control_byte) = 7
              /\ C14_AllFF(dec, dec.index - k + 1, dec.index)
    /\ dec.pc = "ext" =>
          /\ dec.header_type = 0
          /\ dec.copy_length = 7
          /\ dec.data[dec.index] = dec.control_byte
    /\ dec.pc = "offset" =>
          IF high_three_bits(dec.control_byte) # 7
          THEN /\ dec.copy_length = high_three_bits(dec.control_byte)
               /\ dec.copy_length \in 1..6
               /\ dec.data[dec.index] = dec.control_byte
          ELSE IF dec.header_type = 0
          THEN /\ dec.copy_length = 7 + dec.data[dec.index]
               /\ dec.data[dec.index - 1] = dec.control_byte
          ELSE LET last == dec.data[dec.index]
                   k    == C14_Chained(dec.copy_length)
               IN  /\ last # 255
                   /\ dec.copy_length = 7 + 255 * k + last
                   /\ dec.index - k - 1 >= 1
                   /\ dec.data[dec.index - k - 1] = dec.control_byte
                   /\ C14_AllFF(dec, dec.index - k, dec.index - 1)

C14_Step ==
    /\ (dec.pc = "loop" /\ dec.index > 0 /\ dec'.pc \notin {"returned", "except"}) =>
          LET high == high_three_bits(dec.data[dec.index + 1])
          IN  /\ dec'.index = dec.index + 1
              /\ dec'.copy_length = high
              /\ high = 0 <=> dec'.pc = "literal"
              /\ high \in 1..6 <=> dec'.pc = "offset"
              /\ (high = 7 /\ dec.header_type = 0) <=> dec'.pc = "ext"
              /\ (high = 7 /\ dec.header_type = 1) <=> dec'.pc = "chain"
    /\ dec.pc = "ext" =>
          IF dec.index < Len(dec.data)
          THEN /\ dec'.pc = "offset"
               /\ dec'.index = dec.index + 1
               /\ dec'.copy_length = 7 + dec.data[dec.index + 1]
          ELSE dec'.pc = "except"
    /\ dec.pc = "chain" =>
          IF dec.index < Len(dec.data)
          THEN /\ dec'.pc = (IF dec.data[dec.index + 1] = 255 THEN "chain" ELSE "offset")
               /\ dec'.index = dec.index + 1
               /\ dec'.copy_length = dec.copy_length + dec.data[dec.index + 1]
          ELSE dec'.pc = "except"
    /\ dec.pc \in {"offset", "offext", "copy"} => dec'.copy_length = dec.copy_length
    /\ (dec.pc = "copy" /\ dec'.pc = "loop") =>
          Len(dec'.out) = Len(dec.out) + 2 + dec.copy_length

C14_LengthExtension == []C14_State /\ [][C14_Step]_vars

\* short variant, extension byte 0xFF: code 262 and 264 bytes copied, no chain
C14_Witness ==
    /\ dec.pc = "returned"
    /\ dec.data = <<0, 0, 224, 255, 0>>
    /\ dec.copy_length = 262
    /\ Len(dec.out) = 1 + 264

-----------------------------------------------------------------------------
(* C15: the offset is low5 * 256 + the byte read; two more bytes are read, *)
(* high byte first, and added exactly when the variant is long and that    *)
(* value is 0x1FFF.  The short variant copies from distance 8192 for       *)
(* 0x1FFF with nothing more consumed, so its distance is at most 8192 and  *)
(* the long variant's at most 1 + 0x1FFF + 0xFFFF.                         *)

C15_Low5(s) == low_five_bits(s.control_byte)

C15_State ==
    /\ dec.pc = "offext" =>
          /\ dec.header_type = 1
          /\ dec.lookback_offset = 8191
          /\ C15_Low5(dec) = 31 /\ dec.data[dec.index] = 255
    /\ dec.pc = "copy" =>
          IF dec.header_type = 1 /\ dec.lookback_offset >= 8191
          THEN /\ dec.lookback_offset =
                     8191 + dec.data[dec.index - 1] * 256 + dec.data[dec.index]
               /\ dec.data[dec.index - 2] = 255
               /\ C15_Low5(dec) = 31
               /\ 1 + dec.lookback_offset <= 1 + 8191 + 65535
          ELSE /\ dec.lookback_offset = C15_Low5(dec) * 256 + dec.data[dec.index]
               /\ 1 + dec.lookback_offset <= 8192

C15_Step ==
    /\ dec.pc = "offset" =>
          IF dec.index < Len(dec.data)
          THEN LET off == C15_Low5(dec) * 256 + dec.data[dec.index + 1]
               IN  /\ dec'.index = dec.index + 1
                   /\ dec'.lookback_offset = off
                   /\ dec'.pc = "offext" <=> (dec.header_type = 1 /\ off = 8191)
                   /\ dec'.pc = "copy" <=> ~(dec.header_type = 1 /\ off = 8191)
          ELSE dec'.pc = "except"
    /\ dec.pc = "offext" =>
          IF dec.index + 2 <= Len(dec.data)
          THEN /\ dec'.pc = "copy"
               /\ dec'.index = dec.index + 2
               /\ dec'.lookback_offset =
                     8191 + dec.data[dec.index + 1] * 256 + dec.data[dec.index + 2]
          ELSE dec'.pc = "except"
    /\ dec.pc = "copy" =>
          /\ dec'.index = dec.index
          /\ dec'.pc = "loop" =>
                dec'.out[Len(dec.out) + 1] = dec.out[Len(dec.out) - dec.lookback_offset]

C15_OffsetExtension == []C15_State /\ [][C15_Step]_vars

\* long variant: 0x1FFF extended by 0x0102, copied from distance 8450
C15_Witness ==
    /\ dec.pc = "returned"
    /\ dec.header_type = 1
    /\ dec.lookback_offset = 8191 + 258
    /\ Len(dec.out) = 8682

-----------------------------------------------------------------------------
(* C16: every read of the compressed stream either advances the cursor by  *)
(* the number of bytes asked for or raises DecompressionError with the     *)
(* cursor where it was.  So the cursor stays within 0..len(input), the     *)
(* position a raised error carries is the number of bytes consumed, and a  *)
(* call that returns has consumed the whole input.                         *)

\* the bytes the read at this position asks for: take_one, take_n_bytes of
\* the literal length, or take_two_be
C16_Requested(s) ==
    CASE s.pc \in {"loop", "ext", "chain", "offset"} -> 1
      [] s.pc = "literal" -> low_five_bits(s.control_byte) + 1
      [] s.pc = "offext"  -> 2
      [] OTHER            -> 0

C16_State ==
    /\ 0 <= dec.index /\ dec.index <= Len(dec.data)
    /\ dec.pc = "raised" => dec.errpos = dec.index
    /\ dec.pc # "raised" => dec.errpos = None
    /\ dec.pc = "returned" => dec.index = Len(dec.data)

C16_Step ==
    /\ dec'.data = dec.data
    /\ dec'.pc # "returned" =>
          IF Len(dec.data) - dec.index >= C16_Requested(dec)
          THEN /\ dec'.index = dec.index + C16_Requested(dec)
               /\ dec.pc \in {"literal", "ext", "chain", "offset", "offext"} =>
                     dec'.pc # "except"
          ELSE /\ dec'.index = dec.index
               /\ dec'.pc = "except"
               /\ dec'.exc = "DecompressionError"
               /\ dec'.out = dec.out
    /\ dec'.pc = "returned" => dec'.index = dec.index

C16_AllOrNothing == []C16_State /\ [][C16_Step]_vars

\* take_two_be with one byte left: raised at 4 of 5 bytes, none of them taken
C16_Witness ==
    /\ dec.pc = "raised"
    /\ dec.data = <<32, 0, 63, 255, 1>>
    /\ dec.index = 4
    /\ dec.errpos = 4

-----------------------------------------------------------------------------
(* C17: at every moment of decompress the output is at most 255 bytes per  *)
(* input byte consumed, bytes of a backreference being decoded counted at  *)
(* the length code they have added so far; so a call that returns on n     *)
(* bytes of input returns at most 255 * n bytes, none for the empty input. *)

C17_State ==
    /\ Len(dec.out) <= 255 * dec.index
    /\ dec.pc \in {"ext", "chain", "offset", "offext", "copy"} =>
          Len(dec.out) + 2 + dec.copy_length <= 255 * (dec.index + 1)
    /\ dec.pc = "returned" => Len(dec.out) <= 255 * Len(dec.data)
    /\ (dec.pc = "returned" /\ dec.data = <<>>) => dec.out = <<>>

C17_OutputBound == []C17_State

\* nine bytes of input returned 1030 bytes, 114 for every input byte read
C17_Witness ==
    /\ dec.pc = "returned"
    /\ Len(dec.data) = 9
    /\ Len(dec.out) = 1030

-----------------------------------------------------------------------------
(* tdc_data.py: class Data.  A Data object is the record of its bytes and  *)
(* its cursor.  A read gives ok, the object after the read and the value;  *)
(* ok is FALSE when the read raised ParserError, and d is then the object  *)
(* as the read left it.                                                    *)

NewData(data_bytes) == [data |-> data_bytes, index |-> 0]

Data_get_remaining(d) == Len(d.data) - d.index

Data_inc_index(d, count) == [d EXCEPT !.index = d.index + count]

Data_raise(d) == [ok |-> FALSE, d |-> d, value |-> None]

Data_take_one(d) ==
    IF Data_get_remaining(d) < 1 THEN Data_raise(d)
    ELSE [ok |-> TRUE, d |-> Data_inc_index(d, 1), value |-> d.data[d.index + 1]]

\* a read that follows the read a and is added to its value: `value += ... << n`
Data_sum(value, b, weight) ==
    IF ~b.ok THEN b
    ELSE [ok |-> TRUE, d |-> b.d, value |-> value + b.value * weight]

Data_add_one(a, weight) ==
    IF ~a.ok THEN a ELSE Data_sum(a.value, Data_take_one(a.d), weight)

Data_take_two_le(d) ==
    IF Data_get_remaining(d) < 2 THEN Data_raise(d)
    ELSE Data_add_one(Data_take_one(d), 256)

Data_take_three_le(d) ==
    IF Data_get_remaining(d) < 3 THEN Data_raise(d)
    ELSE Data_add_one(Data_add_one(Data_take_one(d), 256), 65536)

Data_add_two(a, weight) ==
    IF ~a.ok THEN a ELSE Data_sum(a.value, Data_take_two_le(a.d), weight)

Data_take_four_le(d) ==
    IF Data_get_remaining(d) < 4 THEN Data_raise(d)
    ELSE Data_add_two(Data_take_two_le(d), 65536)

\* the 64-bit value is kept as its two 32-bit halves, the low one first
Data_halves(value, b) ==
    IF ~b.ok THEN b
    ELSE [ok |-> TRUE, d |-> b.d, value |-> <<value, b.value>>]

Data_add_four(a) ==
    IF ~a.ok THEN a ELSE Data_halves(a.value, Data_take_four_le(a.d))

Data_take_eight_le(d) ==
    IF Data_get_remaining(d) < 8 THEN Data_raise(d)
    ELSE Data_add_four(Data_take_four_le(d))

\* mutant: a negative count is not refused; the cursor moves by it
Data_take_n_bytes_NoSignCheck(d, count) ==
    IF Data_get_remaining(d) < count THEN Data_raise(d)
    ELSE [ok |-> TRUE, d |-> Data_inc_index(d, count),
          value |-> IF count < 0 THEN <<>>
                    ELSE SubSeq(d.data, d.index + 1, d.index + count)]

Data_take_n_bytes(d, count) ==
    IF count < 0 THEN Data_raise(d)
    ELSE IF Data_get_remaining(d) < count THEN Data_raise(d)
    ELSE [ok |-> TRUE, d |-> Data_inc_index(d, count),
          value |-> SubSeq(d.data, d.index + 1, d.index + count)]

Data_take_remaining_bytes(d) ==
    [ok |-> TRUE, d |-> Data_inc_index(d, Data_get_remaining(d)),
     value |-> SubSeq(d.data, d.index + 1, Len(d.data))]

\* the read of a fixed width
Data_take(d, width) ==
    CASE width = 1 -> Data_take_one(d)
      [] width = 2 -> Data_take_two_le(d)
      [] width = 3 -> Data_take_three_le(d)
      [] width = 4 -> Data_take_four_le(d)
      [] width = 8 -> Data_take_eight_le(d)

\* reads of the given widths one after another, up to the first that raises
\* the reads that follow a read r that did not raise
Data_more(r, rest) ==
    [ok |-> rest.ok, d |-> rest.d, values |-> <<r.value>> \o rest.values]

RECURSIVE Data_take_fields(_, _)
Data_next_fields(r, widths) ==
    IF ~r.ok THEN [ok |-> FALSE, d |-> r.d, values |-> <<>>]
    ELSE Data_more(r, Data_take_fields(r.d, widths))

Data_take_fields(d, widths) ==
    IF widths = <<>> THEN [ok |-> TRUE, d |-> d, values |-> <<>>]
    ELSE Data_next_fields(Data_take(d, Head(widths)), Tail(widths))

-----------------------------------------------------------------------------
(* tdc_data.py: handle_block_5, the formatting loop of handle_block_0, and *)
(* the fields that depend on the version.                                  *)

\* the fields after unk9: unk10 from 0x0103, unk11 from 0x0104, unk12 from
\* 0x0108, unk13 from 0x010A
version_fields(version) ==
    (IF version >= 259 THEN <<4>> ELSE <<>>)
        \o (IF version >= 260 THEN <<1>> ELSE <<>>)
        \o (IF version >= 264 THEN <<1>> ELSE <<>>)
        \o (IF version >= 266 THEN <<1>> ELSE <<>>)

\* what handle_block_5 does with its reads: the assertion and the return
block_5_result(r) ==
    IF ~r.ok
    THEN [ok |-> FALSE, error |-> "ParserError", sample_rate_sps |-> None]
    ELSE IF Data_get_remaining(r.d) # 0
    THEN [ok |-> FALSE, error |-> "AssertionError", sample_rate_sps |-> None]
    ELSE [ok |-> TRUE, error |-> "none", sample_rate_sps |-> r.values[6]]

\* the reads are unk1, unk2, capture_start_time, capture_end_time,
\* capture_samples, sample_rate_sps, unk7, unk8, unk9, then those by version
handle_block_5(version, data_bytes) ==
    block_5_result(Data_take_fields(NewData(data_bytes),
                                    <<4, 4, 4, 4, 8, 4, 1, 4, 4>>
                                        \o version_fields(version)))

\* what formatting one record raises: the tag 0 value must be 14 bytes, and
\* its sample counts are divided by the sample rate when one is known
format_record(record, sample_rate_sps) ==
    IF record.value # <<>> /\ record.tag = 0
    THEN IF Len(record.value) # 14 THEN "AssertionError"
         ELSE IF sample_rate_sps # None /\ sample_rate_sps = 0 THEN "ZeroDivisionError"
         ELSE "none"
    ELSE "none"

\* the first exception of the loop over the records, from record i on
RECURSIVE format_records(_, _, _)
format_records(records, sample_rate_sps, i) ==
    IF i > Len(records) THEN "none"
    ELSE IF format_record(records[i], sample_rate_sps) # "none"
    THEN format_record(records[i], sample_rate_sps)
    ELSE format_records(records, sample_rate_sps, i + 1)

-----------------------------------------------------------------------------
(* tdc_data.py: parse and handle_block_0 as a state machine over pa.  pc   *)
(* is the position: "loop" the while test of parse, "b0_size", "b0_data",  *)
(* "b5", "b6_protocol", "b6_size", "b6_data" the reads of a block,         *)
(* "h0_index", "h0_unk2", "h0_loop", "h0_size", "h0_value" the reads of    *)
(* handle_block_0 on its own Data object b0, "returned" and "raised" the   *)
(* two ends.  printed counts the calls of print(info).                     *)

NewPa(version, data_bytes) ==
    [pc |-> "loop", version |-> version, sample_rate_sps |-> None,
     data |-> NewData(data_bytes), b0_size |-> 0, b0 |-> NewData(<<>>),
     records |-> <<>>, tag |-> 0, size |-> 0,
     pending |-> <<>>, b5_block_data |-> <<>>, protocol |-> 0, b6_size |-> 0,
     error |-> "none", printed |-> 0]

\* nothing in parse catches: the exception leaves the call
PaRaise(s, kind) == [s EXCEPT !.pc = "raised", !.error = kind]

PaVersions == {258, 266}

\* Payload pieces.  head is index and unk2 of a type 0 block; tv_record is
\* a record of handle_block_0: tag, size = 6 + len(value), value; stamp is
\* unk5, timestamp_samples, length_samples of a tag 0 value; b0_block is a
\* type 0 block: header byte, size = 4 + len(block data), block data;
\* b5_block is a type 5 block of 37 bytes with the given sample rate.
PaChunks ==
    LET head == <<9, 0, 0, 0, 2, 1>>
        tv_record(tag, value) == <<tag, 0, Len(value) + 6, 0, 0, 0>> \o value
        stamp == <<5, 0, 1, 0, 0, 0, 0, 0, 0, 0, 2, 0, 0, 0>>
        b0_block(header, inner) == <<header, Len(inner) + 4, 0, 0>> \o inner
        b5_block(rate) ==
            <<5>> \o Repeat(<<0>>, 24) \o <<rate, 0, 0, 0>> \o Repeat(<<0>>, 9)
    IN
    { b0_block(0, head),                                                 \* no record
      b0_block(16, head \o tv_record(1, <<>>)),                          \* an empty value
      b0_block(0, head \o tv_record(1, <<7, 8>>) \o tv_record(2, <<9>>)),
      b0_block(0, head \o tv_record(0, stamp)),                          \* a time stamp
      b0_block(0, head \o tv_record(0, <<7, 8>>)),                       \* tag 0, not 14 bytes
      b0_block(0, head \o <<1, 0, 5, 0, 0, 0, 7, 8>>),                   \* record size 5
      b0_block(0, head \o tv_record(1, <<7>>) \o <<1, 0, 0, 0, 0, 0>>),  \* size 0
      b0_block(0, head \o <<1, 0, 9, 0, 0, 0, 7>>),                      \* value cut short
      b0_block(0, head \o <<1, 0, 6, 0>>),                               \* size cut short
      b0_block(0, <<>>),                                                 \* block size 4
      <<0, 3, 0, 0>>,                                                    \* block size 3
      <<0, 0, 0, 0>>,                                                    \* block size 0
      <<0, 40, 0, 0, 1>>,                                                \* block cut short
      b5_block(0),
      b5_block(100) \o <<1, 2, 3, 4, 5, 6, 7>>,
      <<6, 3, 0, 0, 0, 2, 0, 0, 0, 7, 8>>,
      <<6, 1, 0, 0, 0, 9, 0, 0, 0, 7>>,                                  \* data cut short
      <<7>> }                                                            \* unsupported type

RECURSIVE Chunked(_)
Chunked(n) ==
    IF n = 0 THEN {<<>>}
    ELSE Chunked(n - 1) \cup {p \o c : p \in Chunked(n - 1), c \in PaChunks}

PaPayloads ==
    {SubSeq(p, 1, Len(p) - c) : p \in {q \in Chunked(MaxChunks) : Len(q) >= MaxCut},
                                c \in 0..MaxCut}

InitParse ==
    /\ pa \in {NewPa(v, p) : v \in PaVersions, p \in PaPayloads}
    /\ dec = Idle /\ lb = Idle /\ rt = Idle /\ pk = Idle /\ un = Idle
    /\ pr = Idle

\* line 240, the loop test false: parse returns
PaReturn ==
    /\ pa.pc = "loop" /\ Data_get_remaining(pa.data) = 0
    /\ pa' = [pa EXCEPT !.pc = "returned"]
    /\ UNCHANGED <<dec, lb, rt, pk, un, pr>>

\* lines 240-245, 249, 260, 265-266: the header byte and the branch on its type
PaHeader ==
    /\ pa.pc = "loop" /\ Data_get_remaining(pa.data) > 0
    /\ LET r == Data_take_one(pa.data)
           s == [pa EXCEPT !.data = r.d]
           block_type == r.value % 16
       IN  pa' = IF ~r.ok THEN PaRaise(s, "ParserError")
                 ELSE IF block_type = 0 THEN [s EXCEPT !.pc = "b0_size"]
                 ELSE IF block_type = 5
                 THEN [s EXCEPT !.pc = "b5", !.pending = <<37>> \o version_fields(pa.version),
                                !.b5_block_data = <<>>]
                 ELSE IF block_type = 6 THEN [s EXCEPT !.pc = "b6_protocol"]
                 ELSE PaRaise(s, "ParserError")
    /\ UNCHANGED <<dec, lb, rt, pk, un, pr>>

\* line 246
PaB0Size ==
    /\ pa.pc = "b0_size"
    /\ LET r == Data_take_three_le(pa.data)
           s == [pa EXCEPT !.data = r.d]
       IN  pa' = IF ~r.ok THEN PaRaise(s, "ParserError")
                 ELSE [s EXCEPT !.b0_size = r.value, !.pc = "b0_data"]
    /\ UNCHANGED <<dec, lb, rt, pk, un, pr>>

\* lines 247-248 and 131-135: the block data and the call of handle_block_0
PaB0Data ==
    /\ pa.pc = "b0_data"
    /\ LET r == Data_take_n_bytes(pa.data, pa.b0_size - 4)
           s == [pa EXCEPT !.data = r.d]
       IN  pa' = IF ~r.ok THEN PaRaise(s, "ParserError")
                 ELSE [s EXCEPT !.b0 = NewData(r.value), !.records = <<>>,
                                !.pc = "h0_index"]
    /\ UNCHANGED <<dec, lb, rt, pk, un, pr>>

\* line 133
PaH0Index ==
    /\ pa.pc = "h0_index"
    /\ LET r == Data_take_four_le(pa.b0)
           s == [pa EXCEPT !.b0 = r.d]
       IN  pa' = IF ~r.ok THEN PaRaise(s, "ParserError")
                 ELSE [s EXCEPT !.pc = "h0_unk2"]
    /\ UNCHANGED <<dec, lb, rt, pk, un, pr>>

\* line 134
PaH0Unk2 ==
    /\ pa.pc = "h0_unk2"
    /\ LET r == Data_take_two_le(pa.b0)
           s == [pa EXCEPT !.b0 = r.d]
       IN  pa' = IF ~r.ok THEN PaRaise(s, "ParserError")
                 ELSE [s EXCEPT !.pc = "h0_loop"]
    /\ UNCHANGED <<dec, lb, rt, pk, un, pr>>

\* lines 137-138: the loop test true and the tag
PaH0Tag ==
    /\ pa.pc = "h0_loop" /\ Data_get_remaining(pa.b0) # 0
    /\ LET r == Data_take_two_le(pa.b0)
           s == [pa EXCEPT !.b0 = r.d]
       IN  pa' = IF ~r.ok THEN PaRaise(s, "ParserError")
                 ELSE [s EXCEPT !.tag = r.value, !.pc = "h0_size"]
    /\ UNCHANGED <<dec, lb, rt, pk, un, pr>>

\* line 139
PaH0Size ==
    /\ pa.pc = "h0_size"
    /\ LET r == Data_take_four_le(pa.b0)
           s == [pa EXCEPT !.b0 = r.d]
       IN  pa' = IF ~r.ok THEN PaRaise(s, "ParserError")
                 ELSE [s EXCEPT !.size = r.value - 6, !.pc = "h0_value"]
    /\ UNCHANGED <<dec, lb, rt, pk, un, pr>>

\* lines 140-141
PaH0Value ==
    /\ pa.pc = "h0_value"
    /\ LET r == Data_take_n_bytes(pa.b0, pa.size)
           s == [pa EXCEPT !.b0 = r.d]
       IN  pa' = IF ~r.ok THEN PaRaise(s, "ParserError")
                 ELSE [s EXCEPT !.records = Append(pa.records,
                                                   [tag |-> pa.tag, value |-> r.value]),
                                !.pc = "h0_loop"]
    /\ UNCHANGED <<dec, lb, rt, pk, un, pr>>

\* lines 137 and 143-174: the loop test false, the records formatted and printed
PaH0Format ==
    /\ pa.pc = "h0_loop" /\ Data_get_remaining(pa.b0) = 0
    /\ LET r == Data_take_remaining_bytes(pa.b0)
           e == format_records(pa.records, pa.sample_rate_sps, 1)
       IN  pa' = IF Len(r.value) # 0 THEN PaRaise(pa, "AssertionError")
                 ELSE IF e # "none" THEN PaRaise(pa, e)
                 ELSE [pa EXCEPT !.printed = pa.printed + 1, !.pc = "loop"]
    /\ UNCHANGED <<dec, lb, rt, pk, un, pr>>

\* lines 250-258: one take_n_bytes of the block data
PaB5Take ==
    /\ pa.pc = "b5" /\ pa.pending # <<>>
    /\ LET r == Data_take_n_bytes(pa.data, Head(pa.pending))
           s == [pa EXCEPT !.data = r.d]
       IN  pa' = IF ~r.ok THEN PaRaise(s, "ParserError")
                 ELSE [s EXCEPT !.b5_block_data = pa.b5_block_data \o r.value,
                                !.pending = Tail(pa.pending)]
    /\ UNCHANGED <<dec, lb, rt, pk, un, pr>>

\* line 259
PaB5Handle ==
    /\ pa.pc = "b5" /\ pa.pending = <<>>
    /\ LET h == handle_block_5(pa.version, pa.b5_block_data)
       IN  pa' = IF ~h.ok THEN PaRaise(pa, h.error)
                 ELSE [pa EXCEPT !.sample_rate_sps = h.sample_rate_sps,
                                 !.printed = pa.printed + 1, !.pc = "loop"]
    /\ UNCHANGED <<dec, lb, rt, pk, un, pr>>

\* line 261
PaB6Protocol ==
    /\ pa.pc = "b6_protocol"
    /\ LET r == Data_take_four_le(pa.data)
           s == [pa EXCEPT !.data = r.d]
       IN  pa' = IF ~r.ok THEN PaRaise(s, "ParserError")
                 ELSE [s EXCEPT !.protocol = r.value, !.pc = "b6_size"]
    /\ UNCHANGED <<dec, lb, rt, pk, un, pr>>

\* line 262
PaB6Size ==
    /\ pa.pc = "b6_size"
    /\ LET r == Data_take_four_le(pa.data)
           s == [pa EXCEPT !.data = r.d]
       IN  pa' = IF ~r.ok THEN PaRaise(s, "ParserError")
                 ELSE [s EXCEPT !.b6_size = r.value, !.pc = "b6_data"]
    /\ UNCHANGED <<dec, lb, rt, pk, un, pr>>

\* lines 263-264: the block data and handle_block_6, which prints
PaB6Data ==
    /\ pa.pc = "b6_data"
    /\ LET r == Data_take_n_bytes(pa.data, pa.b6_size)
           s == [pa EXCEPT !.data = r.d]
       IN  pa' = IF ~r.ok THEN PaRaise(s, "ParserError")
                 ELSE [s EXCEPT !.printed = pa.printed + 1, !.pc = "loop"]
    /\ UNCHANGED <<dec, lb, rt, pk, un, pr>>

NextParse ==
    \/ PaReturn
    \/ PaHeader
    \/ PaB0Size
    \/ PaB0Data
    \/ PaH0Index
    \/ PaH0Unk2
    \/ PaH0Tag
    \/ PaH0Size
    \/ PaH0Value
    \/ PaH0Format
    \/ PaB5Take
    \/ PaB5Handle
    \/ PaB6Protocol
    \/ PaB6Size
    \/ PaB6Data

SpecParse == InitParse /\ [][NextParse]_vars

-----------------------------------------------------------------------------
(* C18: a size that is too small is refused, not wrapped.  A record of     *)
(* handle_block_0 whose 4-byte size is below 6, and a type 0 block of      *)
(* parse whose 3-byte size is below 4, make take_n_bytes raise ParserError *)
(* with the cursor where it was and no record appended.  Neither cursor    *)
(* ever moves back, and every read of a Data object either advances its    *)
(* cursor by the width asked for or raises ParserError and leaves it.      *)

\* the little-endian value of the `width` bytes after position pos
RECURSIVE C18_LE(_, _, _)
C18_LE(bytes, pos, width) ==
    IF width = 0 THEN 0
    ELSE bytes[pos + 1] + 256 * C18_LE(bytes, pos + 1, width - 1)

\* the positions of handle_block_0, which reads its own Data object
C18_Inner(s) == s.pc \in {"h0_index", "h0_unk2", "h0_loop", "h0_size", "h0_value"}

C18_Object(s) == IF C18_Inner(s) THEN s.b0 ELSE s.data

\* the positions at which the next step is a read
C18_Reads(s) ==
    \/ s.pc \in {"b0_size", "b0_data", "b6_protocol", "b6_size", "b6_data",
                 "h0_index", "h0_unk2", "h0_size", "h0_value"}
    \/ s.pc = "loop" /\ Len(s.data.data) > s.data.index
    \/ s.pc = "h0_loop" /\ Len(s.b0.data) # s.b0.index
    \/ s.pc = "b5" /\ s.pending # <<>>

\* the number of bytes that read asks for
C18_Requested(s) ==
    CASE s.pc = "loop"        -> 1
      [] s.pc = "b0_size"     -> 3
      [] s.pc = "b0_data"     -> s.b0_size - 4
      [] s.pc = "b5"          -> Head(s.pending)
      [] s.pc = "b6_protocol" -> 4
      [] s.pc = "b6_size"     -> 4
      [] s.pc = "b6_data"     -> s.b6_size
      [] s.pc = "h0_index"    -> 4
      [] s.pc = "h0_unk2"     -> 2
      [] s.pc = "h0_loop"     -> 2
      [] s.pc = "h0_size"     -> 4
      [] s.pc = "h0_value"    -> s.size

C18_State ==
    /\ 0 <= pa.data.index /\ pa.data.index <= Len(pa.data.data)
    /\ 0 <= pa.b0.index /\ pa.b0.index <= Len(pa.b0.data)
    /\ pa.pc = "b0_data" => pa.b0_size = C18_LE(pa.data.data, pa.data.index - 3, 3)
    /\ pa.pc = "h0_value" => pa.size = C18_LE(pa.b0.data, pa.b0.index - 4, 4) - 6
    /\ pa.pc = "raised" => pa.error \in {"ParserError", "AssertionError", "ZeroDivisionError"}

C18_Step ==
    /\ pa'.data.data = pa.data.data
    /\ pa'.data.index >= pa.data.index
    /\ C18_Inner(pa) =>
          /\ pa'.b0.data = pa.b0.data
          /\ pa'.b0.index >= pa.b0.index
          /\ SubSeq(pa'.records, 1, Len(pa.records)) = pa.records
    /\ C18_Reads(pa) =>
          LET before == C18_Object(pa)
              after  == IF C18_Inner(pa) THEN pa'.b0 ELSE pa'.data
              n      == C18_Requested(pa)
          IN  IF n >= 0 /\ Len(before.data) - before.index >= n
              THEN /\ after.index = before.index + n
                   /\ pa'.pc = "raised" => pa.pc = "loop"
              ELSE /\ pa'.pc = "raised"
                   /\ pa'.error = "ParserError"
                   /\ after.index = before.index
                   /\ pa'.records = pa.records
                   /\ pa'.printed = pa.printed
    /\ (pa.pc = "h0_value" /\ C18_LE(pa.b0.data, pa.b0.index - 4, 4) < 6) =>
          /\ pa'.pc = "raised" /\ pa'.error = "ParserError"
          /\ pa'.b0 = pa.b0
          /\ pa'.records = pa.records
    /\ (pa.pc = "b0_data" /\ C18_LE(pa.data.data, pa.data.index - 3, 3) < 4) =>
          /\ pa'.pc = "raised" /\ pa'.error = "ParserError"
          /\ pa'.data = pa.data
          /\ pa'.b0 = pa.b0
          /\ pa'.records = pa.records
          /\ pa'.printed = pa.printed
    /\ Len(pa'.records) > Len(pa.records) =>
          /\ pa.pc = "h0_value" /\ pa.size >= 0
          /\ Len(pa'.records) = Len(pa.records) + 1
          /\ Len(pa'.records[Len(pa'.records)].value) = pa.size

C18_SmallSizeRejected == []C18_State /\ [][C18_Step]_vars

\* a type 5 block was handled, then a record of size 5 was refused with
\* two bytes of its block unread and nothing appended
C18_Witness ==
    /\ pa.pc = "raised" /\ pa.error = "ParserError"
    /\ pa.size = -1
    /\ pa.data.index > 40
    /\ pa.b0.index = 12 /\ Len(pa.b0.data) = 14
    /\ pa.records = <<>>
    /\ pa.printed = 1

====
